---- MODULE Spec2Model ----
(***************************************************************************)
(* Model of cxxheaderparser/parserstate.py: the modifier classification    *)
(* (ParsedTypeModifiers.validate) and the parse-context objects (State and *)
(* its three block variants) together with the grammar-side scope stack    *)
(* that pushes and pops them.                                              *)
(*                                                                         *)
(* Python strings are TLA+ strings (concatenated with \o, searched with    *)
(* SubSeq).  A dict is a sequence of entries in insertion order, which is  *)
(* the order dict.values() iterates in.  Objects live in the heap `ctxs`,  *)
(* a reference to an object is its index in it.                            *)
(***************************************************************************)
EXTENDS Integers, Sequences, FiniteSets, TLC

VARIABLES
    mods,      \* the ParsedTypeModifiers value validate is called on
    call,      \* the arguments of the last validate call
    result,    \* what the last validate call did: returned, or raised CxxParseError
    ctxs,      \* heap of State objects, in construction order
    state,     \* the parser's current state (top of the scope stack)
    open,      \* the scopes opened by the input and not yet closed, innermost last
    events,    \* the calls the visitor has received, in order
    lineno,    \* position in the input: line of the next construct
    status,    \* "parsing", "accepted" or "error"
    error,     \* the fatal error when status = "error"
    op         \* the last operation performed

allvars == <<mods, call, result, ctxs, state, open, events, lineno, status, error, op>>
stackvars == <<ctxs, state, open, events, lineno, status, error, op>>
validatevars == <<mods, call, result>>

(***************************************************************************)
(* Bounds                                                                  *)
(***************************************************************************)
MaxMods == 2       \* entries per mapping of a ParsedTypeModifiers
MaxLines == 5      \* constructs in one input
MaxDepth == 3      \* nesting depth of scopes
MaxMembers == 1    \* members added to one class_decl

None == 0
Root == 1

(***************************************************************************)
(* ParsedTypeModifiers                                                     *)
(***************************************************************************)
VarKeywords == {"mutable", "register"}
BothKeywords == {"static", "inline"}
MethKeywords == {"virtual", "explicit"}
Messages == {"", "ctx", "parsing method"}

LexToken(value) == [value |-> value]

\* every dict over `keys` with at most n entries, each filed under its token's
\* spelling (d[tok.value] = tok), as the sequence of its entries in insertion
\* order
RECURSIVE DictsOver(_, _)
DictsOver(keys, n) ==
    IF n = 0 THEN {<<>>}
    ELSE LET shorter == DictsOver(keys, n - 1)
         IN  shorter \cup
             {Append(d, [key |-> k, tok |-> LexToken(k)]) :
                 d \in {e \in shorter : Len(e) = n - 1},
                 k \in keys}

Keys(d) == {d[i].key : i \in 1..Len(d)}
IsDict(d) == \A i, j \in 1..Len(d) : d[i].key = d[j].key => i = j

ParsedTypeModifiers(vs, both, meths) == [vars |-> vs, both |-> both, meths |-> meths]

ParsedTypeModifiersValues ==
    {ParsedTypeModifiers(v, b, m) :
        v \in {d \in DictsOver(VarKeywords, MaxMods) : IsDict(d)},
        b \in {d \in DictsOver(BothKeywords, MaxMods) : IsDict(d)},
        m \in {d \in DictsOver(MethKeywords, MaxMods) : IsDict(d)}}

EmptyMods == ParsedTypeModifiers(<<>>, <<>>, <<>>)

\* dict.values(): the tokens in insertion order
Values(d) == [i \in 1..Len(d) |-> d[i].tok]

\* raise CxxParseError(f"{msg}: unexpected '{tok.value}'")
CxxParseError(msg, tok) == [raised |-> TRUE, message |-> msg \o ": unexpected '" \o tok.value \o "'"]
Returned == [raised |-> FALSE, message |-> ""]

validate_meths_first(self, var_ok, meth_ok, msg) ==
    IF ~meth_ok /\ Len(self.meths) > 0
    THEN CxxParseError(msg, Values(self.meths)[1])
    ELSE IF ~var_ok /\ Len(self.vars) > 0
    THEN CxxParseError(msg, Values(self.vars)[1])
    ELSE IF ~meth_ok /\ ~var_ok /\ Len(self.both) > 0
    THEN CxxParseError(msg, Values(self.both)[1])
    ELSE Returned

validate_both_strict(self, var_ok, meth_ok, msg) ==
    IF ~var_ok /\ Len(self.vars) > 0
    THEN CxxParseError(msg, Values(self.vars)[1])
    ELSE IF ~meth_ok /\ Len(self.meths) > 0
    THEN CxxParseError(msg, Values(self.meths)[1])
    ELSE IF (~meth_ok \/ ~var_ok) /\ Len(self.both) > 0
    THEN CxxParseError(msg, Values(self.both)[1])
    ELSE Returned

validate_ignores_flags(self, var_ok, meth_ok, msg) ==
    IF Len(self.vars) > 0
    THEN CxxParseError(msg, Values(self.vars)[1])
    ELSE IF Len(self.meths) > 0
    THEN CxxParseError(msg, Values(self.meths)[1])
    ELSE IF Len(self.both) > 0
    THEN CxxParseError(msg, Values(self.both)[1])
    ELSE Returned

validate_no_context(self, var_ok, meth_ok, msg) ==
    IF ~var_ok /\ Len(self.vars) > 0
    THEN CxxParseError("", Values(self.vars)[1])
    ELSE IF ~meth_ok /\ Len(self.meths) > 0
    THEN CxxParseError("", Values(self.meths)[1])
    ELSE IF ~meth_ok /\ ~var_ok /\ Len(self.both) > 0
    THEN CxxParseError("", Values(self.both)[1])
    ELSE Returned

\* ParsedTypeModifiers.validate: each `for` raises on its first iteration
validate(self, var_ok, meth_ok, msg) ==
    IF ~var_ok /\ Len(self.vars) > 0
    THEN CxxParseError(msg, Values(self.vars)[1])
    ELSE IF ~meth_ok /\ Len(self.meths) > 0
    THEN CxxParseError(msg, Values(self.meths)[1])
    ELSE IF ~meth_ok /\ ~var_ok /\ Len(self.both) > 0
    THEN CxxParseError(msg, Values(self.both)[1])
    ELSE Returned

NoCall == [made |-> FALSE, var_ok |-> TRUE, meth_ok |-> TRUE, msg |-> ""]

\* one call mods.validate(var_ok=..., meth_ok=..., msg=...)
Validate(var_ok, meth_ok, msg) ==
    /\ call' = [made |-> TRUE, var_ok |-> var_ok, meth_ok |-> meth_ok, msg |-> msg]
    /\ result' = validate(mods, var_ok, meth_ok, msg)
    /\ mods' = mods
    /\ UNCHANGED stackvars

(***************************************************************************)
(* State and its block variants                                            *)
(***************************************************************************)
Linkages == {"C", "C++"}
NamespaceNames == {"n", "m"}
AccessLevels == {"public", "protected", "private"}

NamespaceDecl(names, inline) == [names |-> names, inline |-> inline]
ClassDecl(classkey, name) == [classkey |-> classkey, name |-> name, members |-> 0]

\* what the grammar passes to ClassBlockState(...): class_decl, access, typedef, mods
ClassArguments ==
    { [class_decl |-> ClassDecl("class", "C"), access |-> "private", typedef |-> FALSE,
       mods |-> EmptyMods],
      [class_decl |-> ClassDecl("struct", "S"), access |-> "public", typedef |-> TRUE,
       mods |-> ParsedTypeModifiers(<<>>, <<[key |-> "static", tok |-> LexToken("static")]>>, <<>>)] }

State_init_no_parent(parent) == [kind |-> "State", parent |-> None]

\* State.__init__
State_init(parent) == [kind |-> "State", parent |-> parent]

ExternBlockState_init_drops_parent(parent, linkage) ==
    [State_init(None) EXCEPT !.kind = "ExternBlockState"] @@ [linkage |-> linkage]

\* ExternBlockState.__init__
ExternBlockState_init(parent, linkage) ==
    [State_init(parent) EXCEPT !.kind = "ExternBlockState"] @@ [linkage |-> linkage]

\* NamespaceBlockState.__init__
NamespaceBlockState_init(parent, namespace) ==
    [State_init(parent) EXCEPT !.kind = "NamespaceBlockState"] @@ [namespace |-> namespace]

\* ClassBlockState.__init__
ClassBlockState_init(parent, class_decl, access, typedef, m) ==
    [State_init(parent) EXCEPT !.kind = "ClassBlockState"]
        @@ [class_decl |-> class_decl, access |-> access, typedef |-> typedef, mods |-> m]

\* a call visitor.<name>(state), with what the visitor can read from the
\* object at the time of the call
VisitorCall(name, self) == [name |-> name, state |-> self, seen |-> ctxs[self]]

\* State._finish: pass
State_finish(self, visitor) == visitor

ExternBlockState_finish_twice(self, visitor) ==
    visitor \o <<VisitorCall("on_extern_block_end", self), VisitorCall("on_extern_block_end", self)>>

\* ExternBlockState._finish
ExternBlockState_finish(self, visitor) ==
    Append(visitor, VisitorCall("on_extern_block_end", self))

NamespaceBlockState_finish_wrong_hook(self, visitor) ==
    Append(visitor, VisitorCall("on_class_end", self))

\* NamespaceBlockState._finish
NamespaceBlockState_finish(self, visitor) ==
    Append(visitor, VisitorCall("on_namespace_end", self))

ClassBlockState_finish_silent(self, visitor) == visitor

\* ClassBlockState._finish
ClassBlockState_finish(self, visitor) ==
    Append(visitor, VisitorCall("on_class_end", self))

\* state._finish(visitor): dispatch on the object's class
Finish(self, visitor) ==
    CASE ctxs[self].kind = "ExternBlockState" -> ExternBlockState_finish(self, visitor)
      [] ctxs[self].kind = "NamespaceBlockState" -> NamespaceBlockState_finish(self, visitor)
      [] ctxs[self].kind = "ClassBlockState" -> ClassBlockState_finish(self, visitor)
      [] OTHER -> State_finish(self, visitor)

ClassBlockState_set_access_on_parent(heap, self, access) ==
    IF heap[self].parent # None /\ heap[heap[self].parent].kind = "ClassBlockState"
    THEN [heap EXCEPT ![self].access = access, ![heap[self].parent].access = access]
    ELSE [heap EXCEPT ![self].access = access]

\* ClassBlockState._set_access: the heap after self.access = access
ClassBlockState_set_access(heap, self, access) ==
    [heap EXCEPT ![self].access = access]

(***************************************************************************)
(* The grammar's scope stack                                               *)
(***************************************************************************)
NoError == [kind |-> "", location |-> 0, scope |-> ""]
NoOp == [name |-> "", state |-> None, arg |-> ""]

\* the new state, located at the current line, becomes the current state
PushState(obj, name) ==
    /\ status = "parsing"
    /\ lineno <= MaxLines
    /\ Len(open) < MaxDepth
    /\ ctxs' = Append(ctxs, obj @@ [location |-> lineno])
    /\ state' = Len(ctxs) + 1
    /\ open' = Append(open, [state |-> Len(ctxs) + 1, location |-> lineno])
    /\ lineno' = lineno + 1
    /\ op' = [name |-> name, state |-> Len(ctxs) + 1, arg |-> ""]
    /\ UNCHANGED <<events, status, error>>

\* extern "<linkage>" {
PushExtern(linkage) ==
    /\ PushState(ExternBlockState_init(state, linkage), "push_extern")
    /\ UNCHANGED validatevars

\* namespace <name> {
PushNamespace(name) ==
    /\ PushState(NamespaceBlockState_init(state, NamespaceDecl(<<name>>, FALSE)), "push_namespace")
    /\ UNCHANGED validatevars

\* class <name> {
PushClass(a) ==
    /\ PushState(ClassBlockState_init(state, a.class_decl, a.access, a.typedef, a.mods), "push_class")
    /\ UNCHANGED validatevars

\* }: the current state is finished and its parent becomes the current state
PopState ==
    /\ status = "parsing"
    /\ lineno <= MaxLines
    /\ ctxs[state].parent # None
    /\ events' = Finish(state, events)
    /\ state' = ctxs[state].parent
    /\ open' = SubSeq(open, 1, Len(open) - 1)
    /\ lineno' = lineno + 1
    /\ op' = [name |-> "pop", state |-> state, arg |-> ""]
    /\ UNCHANGED <<ctxs, status, error>>
    /\ UNCHANGED validatevars

\* public: / protected: / private: inside a class body
SetAccess(access) ==
    /\ status = "parsing"
    /\ lineno <= MaxLines
    /\ ctxs[state].kind = "ClassBlockState"
    /\ ctxs' = ClassBlockState_set_access(ctxs, state, access)
    /\ lineno' = lineno + 1
    /\ op' = [name |-> "set_access", state |-> state, arg |-> access]
    /\ UNCHANGED <<state, open, events, status, error>>
    /\ UNCHANGED validatevars

\* a member declaration inside a class body is added to the class_decl
AddMember ==
    /\ status = "parsing"
    /\ lineno <= MaxLines
    /\ ctxs[state].kind = "ClassBlockState"
    /\ ctxs[state].class_decl.members < MaxMembers
    /\ ctxs' = [ctxs EXCEPT ![state].class_decl.members = @ + 1]
    /\ lineno' = lineno + 1
    /\ op' = [name |-> "add_member", state |-> state, arg |-> ""]
    /\ UNCHANGED <<state, open, events, status, error>>
    /\ UNCHANGED validatevars

\* end of input
EndOfInput ==
    /\ status = "parsing"
    /\ IF ctxs[state].parent = None
       THEN /\ status' = "accepted"
            /\ error' = error
       ELSE /\ status' = "error"
            /\ error' = [kind |-> "unterminated scope", location |-> ctxs[state].location,
                         scope |-> ctxs[state].kind]
    /\ op' = [name |-> "eof", state |-> state, arg |-> ""]
    /\ UNCHANGED <<ctxs, state, open, events, lineno>>
    /\ UNCHANGED validatevars

(***************************************************************************)
(* Specifications                                                          *)
(***************************************************************************)
InitStack ==
    /\ ctxs = <<State_init(None) @@ [location |-> 0]>>
    /\ state = Root
    /\ open = <<>>
    /\ events = <<>>
    /\ lineno = 1
    /\ status = "parsing"
    /\ error = NoError
    /\ op = NoOp

\* the scope stack of one parse
Init ==
    /\ mods = EmptyMods
    /\ call = NoCall
    /\ result = Returned
    /\ InitStack

Next ==
    \/ \E linkage \in Linkages : PushExtern(linkage)
    \/ \E name \in NamespaceNames : PushNamespace(name)
    \/ \E a \in ClassArguments : PushClass(a)
    \/ PopState
    \/ \E access \in AccessLevels : SetAccess(access)
    \/ AddMember
    \/ EndOfInput

Spec == Init /\ [][Next]_allvars

\* validate applied to every classification within the bounds
InitValidate ==
    /\ mods \in ParsedTypeModifiersValues
    /\ call = NoCall
    /\ result = Returned
    /\ InitStack

NextValidate ==
    \E var_ok \in BOOLEAN, meth_ok \in BOOLEAN, msg \in Messages : Validate(var_ok, meth_ok, msg)

SpecValidate == InitValidate /\ [][NextValidate]_allvars

(***************************************************************************)
(* Properties of validate (checked under SpecValidate)                     *)
(***************************************************************************)
\* t occurs in s
Contains(s, t) == \E i \in 1..(Len(s) - Len(t) + 1) : SubSeq(s, i, i + Len(t) - 1) = t

NamesKeywordOf(message, d) == \E k \in Keys(d) : Contains(message, k)

VarsViolated == ~call.var_ok /\ Len(mods.vars) > 0
MethsViolated == ~call.meth_ok /\ Len(mods.meths) > 0
BothViolated == ~call.var_ok /\ ~call.meth_ok /\ Len(mods.both) > 0

\* C1 as stated: a violated vars makes validate fail with a message holding msg
\* and a keyword of vars, and a violated meths makes it fail with a message
\* holding msg and a keyword of meths, whatever the other flag and mapping are.
C1_AsStated ==
    call.made =>
        /\ VarsViolated =>
              /\ result.raised
              /\ Contains(result.message, call.msg)
              /\ NamesKeywordOf(result.message, mods.vars)
        /\ MethsViolated =>
              /\ result.raised
              /\ Contains(result.message, call.msg)
              /\ NamesKeywordOf(result.message, mods.meths)

\* C1 amended: a violated vars makes validate fail with a message holding msg
\* and a keyword of vars; a violated meths makes it fail with a message holding
\* msg and a keyword of meths unless vars is violated too, and then the keyword
\* is one of vars.
C1_ValidateRejects ==
    call.made =>
        /\ VarsViolated =>
              /\ result.raised
              /\ Contains(result.message, call.msg)
              /\ NamesKeywordOf(result.message, mods.vars)
        /\ MethsViolated =>
              /\ result.raised
              /\ Contains(result.message, call.msg)
              /\ IF VarsViolated
                 THEN NamesKeywordOf(result.message, mods.vars)
                 ELSE NamesKeywordOf(result.message, mods.meths)

C1_Witness ==
    /\ call.made /\ call.msg = "ctx"
    /\ VarsViolated /\ MethsViolated
    /\ Keys(mods.vars) = {"mutable"}
    /\ Keys(mods.meths) = {"virtual"}
    /\ result = [raised |-> TRUE, message |-> "ctx: unexpected 'mutable'"]

\* C2: when both is the only non-empty mapping validate fails exactly when
\* var_ok and meth_ok are both false, naming a keyword of both; and with any
\* mappings, a failure while one of the flags is true is due to vars or meths.
C2_BothNeedsNeither ==
    call.made =>
        /\ (Len(mods.vars) = 0 /\ Len(mods.meths) = 0 /\ Len(mods.both) > 0) =>
              /\ result.raised <=> (~call.var_ok /\ ~call.meth_ok)
              /\ result.raised => NamesKeywordOf(result.message, mods.both)
        /\ (result.raised /\ (call.var_ok \/ call.meth_ok)) =>
              /\ VarsViolated \/ MethsViolated
              /\ NamesKeywordOf(result.message, IF VarsViolated THEN mods.vars ELSE mods.meths)

C2_Witness ==
    /\ call.made /\ call.msg = "ctx" /\ ~call.var_ok /\ ~call.meth_ok
    /\ Len(mods.vars) = 0 /\ Len(mods.meths) = 0
    /\ Keys(mods.both) = {"static"}
    /\ result = [raised |-> TRUE, message |-> "ctx: unexpected 'static'"]

\* C3: a call validate(var_ok=true, meth_ok=true, msg) returns without an
\* error whatever the three mappings hold, and leaves them as they were.
C3_AllOkNeverFails ==
    [][(call'.made /\ call'.var_ok /\ call'.meth_ok) =>
          (~result'.raised /\ mods' = mods)]_allvars

C3_Witness ==
    /\ call.made /\ call.var_ok /\ call.meth_ok /\ call.msg = "ctx"
    /\ Len(mods.vars) = MaxMods /\ Len(mods.both) = MaxMods /\ Len(mods.meths) = MaxMods
    /\ ~result.raised

\* the mappings in the order they are checked, with the condition that makes
\* each a violation
CheckOrder ==
    << [violated |-> VarsViolated, mapping |-> mods.vars],
       [violated |-> MethsViolated, mapping |-> mods.meths],
       [violated |-> BothViolated, mapping |-> mods.both] >>

\* C10: a failing validate raises one error, which names the first-inserted
\* entry of the first violated mapping in the order vars, meths, both; when no
\* mapping is violated it returns.
C10_FirstOffender ==
    call.made =>
        IF \E i \in 1..3 : CheckOrder[i].violated
        THEN LET first == CHOOSE i \in 1..3 :
                            /\ CheckOrder[i].violated
                            /\ \A j \in 1..(i - 1) : ~CheckOrder[j].violated
             IN  result = [raised |-> TRUE,
                           message |-> call.msg \o ": unexpected '"
                                         \o CheckOrder[first].mapping[1].key \o "'"]
        ELSE result = Returned

C10_Witness ==
    /\ call.made /\ call.msg = "ctx" /\ ~call.var_ok /\ ~call.meth_ok
    /\ mods.vars = <<[key |-> "register", tok |-> LexToken("register")],
                     [key |-> "mutable", tok |-> LexToken("mutable")]>>
    /\ Len(mods.meths) = MaxMods /\ Len(mods.both) = MaxMods
    /\ result.message = "ctx: unexpected 'register'"

(***************************************************************************)
(* Properties of the scope stack (checked under Spec)                      *)
(***************************************************************************)
\* a is on the parent chain of b
RECURSIVE IsAncestor(_, _)
IsAncestor(a, b) ==
    /\ ctxs[b].parent # None
    /\ \/ ctxs[b].parent = a
       \/ IsAncestor(a, ctxs[b].parent)

Notified(c) == {i \in 1..Len(events) : events[i].state = c}
Opened == {open[i].state : i \in 1..Len(open)}
Closed == (1..Len(ctxs)) \ (Opened \cup {Root})

EndHook(kind) ==
    CASE kind = "ExternBlockState" -> "on_extern_block_end"
      [] kind = "NamespaceBlockState" -> "on_namespace_end"
      [] kind = "ClassBlockState" -> "on_class_end"
      [] OTHER -> ""

\* C4: end notifications are delivered innermost first: when the end of a
\* context A has been delivered, the end of every context that has A on its
\* parent chain was delivered earlier, and never later.
C4_LifoClose ==
    \A j \in 1..Len(events) :
        /\ \A b \in 1..Len(ctxs) :
              IsAncestor(events[j].state, b) => \E i \in 1..(j - 1) : events[i].state = b
        /\ \A i \in (j + 1)..Len(events) : ~IsAncestor(events[j].state, events[i].state)

C4_Witness ==
    /\ Len(events) = 2
    /\ events[1].name = "on_class_end" /\ events[2].name = "on_namespace_end"
    /\ ctxs[events[1].state].parent = events[2].state

\* C5: every context receives at most one end notification; a scope that has
\* been popped has received exactly one, a scope still open none.
C5_ExactlyOnce ==
    /\ \A c \in 1..Len(ctxs) : Cardinality(Notified(c)) <= 1
    /\ \A c \in Closed : Cardinality(Notified(c)) = 1
    /\ \A c \in Opened \cup {Root} : Notified(c) = {}

C5_Witness ==
    /\ Cardinality(Closed) = 2
    /\ Len(events) = 2
    /\ \E c \in Closed : ctxs[c].kind = "ExternBlockState"
    /\ Opened # {}

\* C6: closing a context delivers exactly one event, the end hook of the
\* context's variant, with the closing context as argument and its fields as
\* they are at that moment.
C6_OneEventPerClose ==
    [][(op'.name = "pop" /\ lineno' # lineno) =>
          /\ events' = Append(events, [name |-> EndHook(ctxs[state].kind),
                                       state |-> state,
                                       seen |-> ctxs[state]])
          /\ EndHook(ctxs[state].kind) # ""
          /\ ctxs' = ctxs]_allvars

C6_Witness ==
    /\ op.name = "pop"
    /\ Len(events) = 1
    /\ events[1].name = "on_class_end"
    /\ events[1].state = op.state
    /\ events[1].seen.class_decl.members = 1
    /\ events[1].seen.access = "protected"

\* C7: _set_access gives the context the access passed and changes nothing
\* else: not its parent, class_decl, typedef or mods, and no other context.
C7_SetAccessFrame ==
    [][(op'.name = "set_access" /\ lineno' # lineno) =>
          /\ Len(ctxs') = Len(ctxs)
          /\ ctxs'[op'.state].access = op'.arg
          /\ ctxs'[op'.state] = [ctxs[op'.state] EXCEPT !.access = op'.arg]
          /\ \A c \in 1..Len(ctxs) : c # op'.state => ctxs'[c] = ctxs[c]]_allvars

C7_Witness ==
    /\ op.name = "set_access" /\ op.arg = "public"
    /\ ctxs[op.state].class_decl.classkey = "class"
    /\ ctxs[op.state].access = "public"
    /\ ctxs[op.state].parent # None
    /\ ctxs[ctxs[op.state].parent].kind = "ClassBlockState"
    /\ ctxs[ctxs[op.state].parent].access = "private"

\* C8: only the root context has no parent; a context that is constructed
\* gets as parent the context that is then the current state, and its
\* construction changes no existing context.
C8_ParentIsTopAtConstruction ==
    /\ [](\A c \in 1..Len(ctxs) : ctxs[c].parent = None <=> c = Root)
    /\ [][Len(ctxs') > Len(ctxs) =>
            /\ Len(ctxs') = Len(ctxs) + 1
            /\ ctxs'[Len(ctxs')].parent = state
            /\ \A c \in 1..Len(ctxs) : ctxs'[c] = ctxs[c]]_allvars

C8_Witness ==
    /\ Len(ctxs) = 4
    /\ ctxs[2].kind = "ExternBlockState" /\ ctxs[2].parent = Root
    /\ ctxs[3].kind = "ClassBlockState" /\ ctxs[3].parent = 2
    /\ ctxs[4].kind = "NamespaceBlockState" /\ ctxs[4].parent = 2
    /\ Closed = {3}

\* C9: end of input with scopes still open is the unterminated scope error,
\* located where the innermost open scope began, and delivers no end
\* notification; end of input is accepted only when no scope is open.
C9_UnterminatedScope ==
    /\ [](/\ status = "accepted" => open = <<>>
          /\ status = "error" =>
                /\ open # <<>>
                /\ error.kind = "unterminated scope"
                /\ error.location = open[Len(open)].location
                /\ \A i \in 1..Len(open) : Notified(open[i].state) = {})
    /\ [][op'.name = "eof" =>
            /\ events' = events
            /\ status' = IF open = <<>> THEN "accepted" ELSE "error"]_allvars

C9_Witness ==
    /\ status = "error"
    /\ Len(open) = 2
    /\ ctxs[open[2].state].kind = "NamespaceBlockState"
    /\ error.location = 4
    /\ Len(events) = 1

====
